---------------------------- MODULE Spec2Model ----------------------------
(***************************************************************************)
(* Session lifecycle of the expense tracker: the user and session tables   *)
(* of internal/storage, the Login / Logout handlers and the AuthMiddleware *)
(* gate of internal/handlers, and the adduser command; and the expense     *)
(* table of internal/storage with the handlers that list, create and       *)
(* update expenses.                                                        *)
(*                                                                         *)
(* Time is counted in whole days (SessionDuration = 30 * 24h = 30).  Every *)
(* read of the clock in the code (time.Now(), CURRENT_TIMESTAMP) is a read *)
(* of the variable clock at the step that performs it; the clock may move  *)
(* between any two steps of a handler.  Each SQL statement is one atomic   *)
(* step, handlers run concurrently and interleave between statements.      *)
(* AuthMiddleware reads the clock (handlers.go:72) at the instant of its    *)
(* SELECT; the UPDATE of RenewSession is a later step.                     *)
(* Strings that the code inspects (user names, passwords) are sequences of *)
(* one-character strings; session tokens are opaque strings.               *)
(***************************************************************************)
EXTENDS Integers, Sequences, FiniteSets, TLC

VARIABLES
    clock,      \* the wall clock, in days
    users,      \* rows of table users
    sessions,   \* rows of table sessions (token is the primary key)
    expenses,   \* rows of table expenses (id is the primary key)
    stats,      \* the Statistics request in flight, with what it has read
    req,        \* the requests in flight through AuthMiddleware
    resp,       \* the response written by the step just taken, if any
    lastSeen    \* history: per token, the instant at which it was last
                \* presented by an uninterruptedly active client, each of
                \* whose requests was handled at the instant it arrived
                \* ({} if there is no such client)

vars == <<clock, users, sessions, expenses, stats, req, resp, lastSeen>>

---------------------------------------------------------------------------
(* Bounds of the model *)

MaxTime == 46

\* The instants at which the clock is observed: the days around every
\* multiple of half a session lifetime.
Instants ==
    {t \in 0..MaxTime : t % 30 \in {0, 14, 15, 16, 17}}

\* the horizon of the workload with two sessions
ShortTime == 16

ReqIds == {"r1", "r2"}

Tokens == {"t1", "t2"}

Usernames == {<<"a">>, <<"b">>}

FormUsernames == {<<" ">>, <<"a">>, <<" ", "b">>}

Passwords == {<<"p">>}

FormPasswords == Passwords \cup {<<>>, <<"q">>}

\* the largest number of expense rows
MaxExpenses == 2

ExpenseIds == 0..MaxExpenses

\* the date field of a form: absent, or the year, month and day of a text
\* "yyyy-mm-ddT00:00" (not every one of them a date of the calendar), or a
\* text that is no date
FormDates ==
    {<<>>, <<2024, 1, 31>>, <<2024, 2, 1>>, <<2024, 2, 30>>, <<2024, 3, 1>>}

FormAmounts == {"5.00"}

FormCategories == {"food"}

\* the forms submitted: every date without a description, and one form with
\* a description
Forms ==
    [amount : FormAmounts, description : {""},
     category : FormCategories, date : FormDates]
    \cup [amount : FormAmounts, description : {"Lunch"},
          category : FormCategories, date : {<<2024, 2, 1>>}]

\* the arguments of direct calls of the storage package
StorageAmounts == {2000}

StorageDescriptions == {"Bus"}

StorageCategories == {"food", "transport"}

---------------------------------------------------------------------------
(* Constants of the program *)

SessionCookieName == "session"

SessionDuration == 30

StatusFound == 302

StatusOK == 200

StatusBadRequest == 400

StatusInternalServerError == 500

---------------------------------------------------------------------------
(* internal/auth (password hashing and token generation) *)

HashPassword(password) ==
    <<"$hash$">> \o password

CheckPassword(password, hash) ==
    hash = HashPassword(password)

---------------------------------------------------------------------------
(* strings.TrimSpace on sequences of characters *)

RECURSIVE TrimLeft(_)
TrimLeft(s) ==
    IF s # <<>> /\ Head(s) = " " THEN TrimLeft(Tail(s)) ELSE s

RECURSIVE TrimRight(_)
TrimRight(s) ==
    IF s # <<>> /\ s[Len(s)] = " " THEN TrimRight(SubSeq(s, 1, Len(s) - 1)) ELSE s

TrimSpace(s) ==
    TrimRight(TrimLeft(s))

---------------------------------------------------------------------------
(* package time: the proleptic Gregorian calendar.  An instant is a number  *)
(* of days; instant 0 is 2024-01-17, so that the instants 14 and 15 are the *)
(* last day of January and the first day of February 2024.  The clock and   *)
(* all dates are read in one time zone.                                     *)

\* instant 0: the year, and the number of days since January 1 of it
Epoch == [year |-> 2024, dayOfYear |-> 16]

IsLeap(y) ==
    y % 4 = 0 /\ (y % 100 # 0 \/ y % 400 = 0)

daysIn(y, m) ==
    IF m = 2 THEN (IF IsLeap(y) THEN 29 ELSE 28)
    ELSE IF m \in {4, 6, 9, 11} THEN 30 ELSE 31

\* the number of leap years before year y
LeapsBefore(y) ==
    ((y - 1) \div 4) - ((y - 1) \div 100) + ((y - 1) \div 400)

RECURSIVE DaysBeforeMonth(_, _)
DaysBeforeMonth(y, m) ==
    IF m = 1 THEN 0
    ELSE IF m < 1 THEN DaysBeforeMonth(y, m + 1) - daysIn(y - 1, m + 12)
    ELSE DaysBeforeMonth(y, m - 1) + daysIn(y, m - 1)

\* time.time_Date(y, m, d, 0, 0, 0, 0, loc)
time_Date(y, m, d) ==
    365 * (y - Epoch.year) + LeapsBefore(y) - LeapsBefore(Epoch.year)
        + DaysBeforeMonth(y, m) + (d - 1) - Epoch.dayOfYear

\* the year and month of the day that lies off days after the first day of
\* month m of year y
RECURSIVE CivilFrom(_, _, _)
CivilFrom(y, m, off) ==
    IF off < 0
    THEN IF m = 1 THEN CivilFrom(y - 1, 12, off + 31)
         ELSE CivilFrom(y, m - 1, off + daysIn(y, m - 1))
    ELSE IF off >= daysIn(y, m)
    THEN IF m = 12 THEN CivilFrom(y + 1, 1, off - 31)
         ELSE CivilFrom(y, m + 1, off - daysIn(y, m))
    ELSE [year |-> y, month |-> m, day |-> off + 1]

\* t.Year(), t.Month(), t.Day()
Civil(t) ==
    CivilFrom(Epoch.year, 1, t + Epoch.dayOfYear)

\* the zero value time.Time{}: January 1 of year 1
ZeroTime == time_Date(1, 1, 1)

\* time.Parse("2006-01-02T15:04", dateStr)
ParseTime(dateStr) ==
    IF /\ Len(dateStr) = 3
       /\ dateStr[2] \in 1..12
       /\ dateStr[3] \in 1..daysIn(dateStr[1], dateStr[2])
    THEN [err |-> FALSE, time |-> time_Date(dateStr[1], dateStr[2], dateStr[3])]
    ELSE [err |-> TRUE, time |-> ZeroTime]

\* strconv.ParseFloat(s, 64), in cents; 0 with an error for a text that is
\* not a number
ParseFloat(str) ==
    IF str = "5.00" THEN [err |-> FALSE, value |-> 500]
    ELSE [err |-> TRUE, value |-> 0]

---------------------------------------------------------------------------
(* internal/models and internal/storage *)

NoUser == [ID |-> 0, Username |-> <<>>, PasswordHash |-> <<>>]

NoInfo == [err |-> TRUE, User |-> NoUser, LastActivity |-> 0, ExpiresAt |-> 0]

\* SELECT ... FROM users WHERE username = ?
GetUserByUsername(username) ==
    LET rows == {u \in users : u.Username = username}
    IN  IF rows = {} THEN [err |-> TRUE, user |-> NoUser]
        ELSE [err |-> FALSE, user |-> CHOOSE u \in rows : TRUE]

\* AUTOINCREMENT primary key of table users
NextUserID ==
    IF users = {} THEN 1
    ELSE (CHOOSE m \in {u.ID : u \in users} : \A u \in users : u.ID <= m) + 1

\* INSERT INTO users; username is UNIQUE
CreateUser(username, passwordHash) ==
    IF \E u \in users : u.Username = username
    THEN [err |-> TRUE, users |-> users]
    ELSE [err |-> FALSE,
          users |-> users \cup {[ID |-> NextUserID, Username |-> username,
                                 PasswordHash |-> passwordHash]}]

\* the INSERT with its two timestamps exchanged
CreateSession_SwappedTimes(token, userID, expiresAt, now) ==
    IF \E s \in sessions : s.token = token
    THEN [err |-> TRUE, sessions |-> sessions]
    ELSE [err |-> FALSE,
          sessions |-> sessions \cup {[token |-> token, user_id |-> userID,
                                       expires_at |-> now,
                                       last_activity |-> expiresAt]}]

\* INSERT INTO sessions; token is the PRIMARY KEY
CreateSession(token, userID, expiresAt, now) ==
    IF \E s \in sessions : s.token = token
    THEN [err |-> TRUE, sessions |-> sessions]
    ELSE [err |-> FALSE,
          sessions |-> sessions \cup {[token |-> token, user_id |-> userID,
                                       expires_at |-> expiresAt,
                                       last_activity |-> now]}]

\* a query that tells an expired row from a missing one
ValidateSessionWithInfo_ReportsExpired(token, now) ==
    LET rows == {p \in sessions \X users :
                    /\ p[1].user_id = p[2].ID
                    /\ p[1].token = token}
    IN  IF rows = {} THEN NoInfo
        ELSE LET p == CHOOSE q \in rows : TRUE
             IN  [err |-> p[1].expires_at <= now,
                  User |-> IF p[1].expires_at <= now THEN NoUser ELSE p[2],
                  LastActivity |-> IF p[1].expires_at <= now THEN 0
                                   ELSE p[1].last_activity,
                  ExpiresAt |-> p[1].expires_at]

\* the query with an inclusive expiry test
ValidateSessionWithInfo_Inclusive(token, now) ==
    LET rows == {p \in sessions \X users :
                    /\ p[1].user_id = p[2].ID
                    /\ p[1].token = token
                    /\ p[1].expires_at >= now}
    IN  IF rows = {} THEN NoInfo
        ELSE LET p == CHOOSE q \in rows : TRUE
             IN  [err |-> FALSE, User |-> p[2],
                  LastActivity |-> p[1].last_activity,
                  ExpiresAt |-> p[1].expires_at]

\* the query without its filter on the token
ValidateSessionWithInfo_AnyToken(token, now) ==
    LET rows == {p \in sessions \X users :
                    /\ p[1].user_id = p[2].ID
                    /\ p[1].expires_at > now}
    IN  IF rows = {} THEN NoInfo
        ELSE LET p == CHOOSE q \in rows : TRUE
             IN  [err |-> FALSE, User |-> p[2],
                  LastActivity |-> p[1].last_activity,
                  ExpiresAt |-> p[1].expires_at]

\* SELECT ... FROM sessions s JOIN users u ON s.user_id = u.id
\* WHERE s.token = ? AND s.expires_at > CURRENT_TIMESTAMP
ValidateSessionWithInfo(token, now) ==
    LET rows == {p \in sessions \X users :
                    /\ p[1].user_id = p[2].ID
                    /\ p[1].token = token
                    /\ p[1].expires_at > now}
    IN  IF rows = {} THEN NoInfo
        ELSE LET p == CHOOSE q \in rows : TRUE
             IN  [err |-> FALSE, User |-> p[2],
                  LastActivity |-> p[1].last_activity,
                  ExpiresAt |-> p[1].expires_at]

ValidateSession(token, now) ==
    LET info == ValidateSessionWithInfo(token, now)
    IN  [err |-> info.err, user |-> info.User]

\* the UPDATE without its assignment to expires_at
RenewSession_KeepExpiry(token, newExpiresAt, now) ==
    {IF s.token = token
     THEN [s EXCEPT !.last_activity = now]
     ELSE s : s \in sessions}

\* the UPDATE without its assignment to last_activity
RenewSession_KeepActivity(token, newExpiresAt, now) ==
    {IF s.token = token
     THEN [s EXCEPT !.expires_at = newExpiresAt]
     ELSE s : s \in sessions}

\* the UPDATE without its WHERE clause
RenewSession_AllRows(token, newExpiresAt, now) ==
    {[s EXCEPT !.last_activity = now, !.expires_at = newExpiresAt] : s \in sessions}

\* UPDATE sessions SET last_activity = ?, expires_at = ? WHERE token = ?
RenewSession(token, newExpiresAt, now) ==
    {IF s.token = token
     THEN [s EXCEPT !.last_activity = now, !.expires_at = newExpiresAt]
     ELSE s : s \in sessions}

\* a DELETE that empties the table when the token has no row
DeleteSession_ClearsWhenAbsent(token) ==
    IF \E s \in sessions : s.token = token
    THEN {s \in sessions : s.token # token}
    ELSE {}

\* DELETE FROM sessions WHERE token = ?
DeleteSession(token) ==
    {s \in sessions : s.token # token}

\* the sweep with a strict comparison
CleanExpiredSessions_Strict(now) ==
    {s \in sessions : ~(s.expires_at < now)}

\* DELETE FROM sessions WHERE expires_at <= CURRENT_TIMESTAMP
CleanExpiredSessions(now) ==
    {s \in sessions : ~(s.expires_at <= now)}

\* models.Expense
NoExpense ==
    [ID |-> 0, Amount |-> 0, Description |-> "", Category |-> "", Date |-> ZeroTime]

\* AUTOINCREMENT primary key of table expenses
NextExpenseID ==
    IF expenses = {} THEN 1
    ELSE (CHOOSE m \in {e.ID : e \in expenses} : \A e \in expenses : e.ID <= m) + 1

\* INSERT INTO expenses (amount, description, category, date)
CreateExpense(amount, description, category, date, now) ==
    LET stored == IF date = ZeroTime THEN now ELSE date
    IN  expenses \cup {[ID |-> NextExpenseID, Amount |-> amount,
                         Description |-> description, Category |-> category,
                         Date |-> stored]}

\* an UPDATE that inserts the row when no row has the id
UpdateExpense_Upsert(e) ==
    {x \in expenses : x.ID # e.ID} \cup {e}

\* UPDATE expenses SET amount = ?, description = ?, category = ?, date = ?
\* WHERE id = ?
UpdateExpense(e) ==
    {IF x.ID = e.ID
     THEN [x EXCEPT !.Amount = e.Amount, !.Description = e.Description,
                    !.Category = e.Category, !.Date = e.Date]
     ELSE x : x \in expenses}

\* the time.time_Date(now.Year(), now.Month(), 1, 0, 0, 0, 0, now.Location()) of
\* ListExpenses
startOfMonth(now) ==
    time_Date(Civil(now).year, Civil(now).month, 1)

\* the sequences that hold every row of a set once, by date descending
\* (ORDER BY date DESC leaves the order of rows of equal date open)
OrderByDateDesc(rows) ==
    {q \in [1..Cardinality(rows) -> rows] :
        /\ \A i, j \in 1..Cardinality(rows) : i < j => q[i] # q[j]
        /\ \A i, j \in 1..Cardinality(rows) : i < j => q[i].Date >= q[j].Date}

\* the query with a strict comparison
ListExpenses_Strict(now) ==
    OrderByDateDesc({e \in expenses : e.Date > startOfMonth(now)})

\* SELECT ... FROM expenses WHERE date >= ? ORDER BY date DESC: the possible
\* results
ListExpenses(now) ==
    OrderByDateDesc({e \in expenses : e.Date >= startOfMonth(now)})

---------------------------------------------------------------------------
(* internal/handlers: requests and responses *)

NoCookie == [present |-> FALSE, value |-> ""]

Cookie(v) == [present |-> TRUE, value |-> v]

RequestCookies == {NoCookie} \cup {Cookie(v) : v \in Tokens \cup {""}}

\* the Set-Cookie header of a response
NoSetCookie == [set |-> FALSE, value |-> "", maxAge |-> 0]

\* a failed validation that leaves the client's cookie in place
clearSessionCookie_Forgotten == [set |-> FALSE, value |-> "", maxAge |-> 0]

\* handlers.go 179-189
clearSessionCookie == [set |-> TRUE, value |-> "", maxAge |-> -1]

\* handlers.go 81-89 and 155-163
IssueSessionCookie(token) ==
    [set |-> TRUE, value |-> token, maxAge |-> SessionDuration]

\* a request that is not in flight
IdleReq ==
    [pc |-> "idle", cookie |-> NoCookie, user |-> NoUser, newExpiresAt |-> 0]

\* the form of a request without form values
NoForm == [amount |-> "", description |-> "", category |-> "", date |-> <<>>]

\* a float64 computed as a quotient of amounts: num / den
Frac(num, den) == [num |-> num, den |-> den]

\* 0.0
FracZero == Frac(0, 1)

\* StatsViewModel{}
ZeroViewModel ==
    [ViewMode |-> "", Year |-> 0, Month |-> 0, Total |-> 0,
     PercentageChange |-> FracZero, IsIncrease |-> FALSE, HasChange |-> FALSE,
     AverageSpending |-> FracZero, Categories |-> {}, Expenses |-> {},
     ChartData |-> <<>>, PrevYear |-> 0, PrevMonth |-> 0]

\* no Statistics request in flight
NoStats ==
    [pc |-> "idle", viewMode |-> "", year |-> 0, month |-> 0,
     categoryTotals |-> {}, expenses |-> {}, periodTotals |-> {},
     total |-> 0, prevTotal |-> 0, failed |-> {}]

\* no response written
NoResp ==
    [handler |-> "", cookie |-> NoCookie, username |-> <<>>,
     password |-> <<>>, queried |-> FALSE, renewed |-> "no",
     status |-> 0, location |-> "", view |-> "", setCookie |-> NoSetCookie,
     served |-> FALSE, ctxUser |-> NoUser,
     form |-> NoForm, expense |-> NoExpense, list |-> <<>>,
     model |-> ZeroViewModel, failed |-> {}, error |-> ""]

Inactive == {}

Init ==
    /\ clock = 0
    /\ users = {}
    /\ sessions = {}
    /\ expenses = {}
    /\ stats = NoStats
    /\ req = [r \in ReqIds |-> IdleReq]
    /\ resp = NoResp
    /\ lastSeen = [t \in Tokens |-> Inactive]

---------------------------------------------------------------------------
(* The environment *)

\* history: a request that is still in flight when the clock moves was not
\* handled at the instant it arrived
Overtaken ==
    [t \in Tokens |->
        IF \E r \in ReqIds : req[r].pc = "renewing" /\ req[r].cookie.value = t
        THEN Inactive ELSE lastSeen[t]]

Tick(horizon) ==
    /\ \E t \in Instants : t > clock /\ t <= horizon /\ clock' = t
    /\ resp' = NoResp
    /\ lastSeen' = Overtaken
    /\ UNCHANGED <<users, stats, sessions, expenses, req>>

---------------------------------------------------------------------------
(* cmd/adduser: run *)

\* the lines of a standard input that is at its end
NoStdin == <<>>

\* main.go 91-110, for an input that is not a terminal: the first line
readPassword(stdin) ==
    IF stdin = <<>> THEN [err |-> TRUE, password |-> <<>>]
    ELSE [err |-> FALSE, password |-> Head(stdin)]

\* the error that a run returns; "" is nil
runError(username, passwordFlag, stdin) ==
    LET password == IF passwordFlag = <<>> THEN readPassword(stdin).password
                    ELSE passwordFlag
    IN  IF username = <<>> THEN "missing required flags: user"
        ELSE IF passwordFlag = <<>> /\ readPassword(stdin).err
        THEN "failed to read password"
        ELSE IF TrimSpace(password) = <<>> THEN "password cannot be empty"
        ELSE IF ~GetUserByUsername(username).err THEN "user already exists"
        ELSE IF CreateUser(username, HashPassword(password)).err
        THEN "failed to create user"
        ELSE ""

\* a run that leaves the check for an existing user to the INSERT
run_SkipsExistingCheck(username, passwordFlag, stdin) ==
    LET password == IF passwordFlag = <<>> THEN readPassword(stdin).password
                    ELSE passwordFlag
        err == IF username = <<>> THEN "missing required flags: user"
               ELSE IF passwordFlag = <<>> /\ readPassword(stdin).err
               THEN "failed to read password"
               ELSE IF TrimSpace(password) = <<>>
               THEN "password cannot be empty"
               ELSE IF CreateUser(username, HashPassword(password)).err
               THEN "failed to create user"
               ELSE ""
    IN  /\ users' = IF err = ""
                    THEN CreateUser(username, HashPassword(password)).users
                    ELSE users
        /\ resp' = [NoResp EXCEPT !.handler = "adduser",
                                  !.username = username,
                                  !.password = password, !.error = err]
        /\ UNCHANGED <<clock, stats, sessions, expenses, req, lastSeen>>

\* main.go 27-89
run(username, passwordFlag, stdin) ==
    LET password == IF passwordFlag = <<>> THEN readPassword(stdin).password
                    ELSE passwordFlag
        err == runError(username, passwordFlag, stdin)
    IN  /\ users' = IF err = ""
                    THEN CreateUser(username, HashPassword(password)).users
                    ELSE users
        /\ resp' = [NoResp EXCEPT !.handler = "adduser",
                                  !.username = username,
                                  !.password = password, !.error = err]
        /\ UNCHANGED <<clock, stats, sessions, expenses, req, lastSeen>>

---------------------------------------------------------------------------
(* AuthMiddleware *)

halfSessionDuration == SessionDuration \div 2

\* handlers.go 58 and 66: http.Redirect(w, r, "/login", http.StatusFound)
RedirectToLogin(cookie) ==
    [NoResp EXCEPT !.handler = "AuthMiddleware", !.cookie = cookie,
                   !.status = StatusFound, !.location = "/login"]

\* handlers.go 94-96: attach the user to the context and call next
Serve(cookie, user) ==
    [NoResp EXCEPT !.handler = "AuthMiddleware", !.cookie = cookie,
                   !.queried = TRUE, !.status = StatusOK,
                   !.served = TRUE, !.ctxUser = user]

\* the renewal condition with an inclusive comparison
ShouldRenew_Inclusive(expiresAt, now) ==
    expiresAt - now <= halfSessionDuration

\* handlers.go 76: the renewal condition
ShouldRenew(expiresAt, now) ==
    expiresAt - now < halfSessionDuration

\* history: the token is presented again by a client that has presented it
\* at most half a session lifetime ago
Presented(cookie) ==
    IF cookie.present /\ cookie.value \in Tokens
    THEN [lastSeen EXCEPT ![cookie.value] =
            IF \E t \in @ : clock - t < halfSessionDuration
            THEN {clock} ELSE Inactive]
    ELSE lastSeen

\* the test of the cookie without its test for an empty value
CookieMissing_IgnoresEmpty(cookie) ==
    ~cookie.present

\* handlers.go 57: err != nil || cookie.Value == ""
CookieMissing(cookie) ==
    ~cookie.present \/ cookie.value = ""

\* handlers.go 56-76 (and 94-96 when no renewal is due): read the cookie,
\* validate the session, read the clock and decide whether to renew
AuthMiddleware(r, cookie) ==
    /\ req[r].pc = "idle"
    /\ LET info == ValidateSessionWithInfo(cookie.value, clock)
           now == clock
       IN  IF CookieMissing(cookie)
           THEN /\ resp' = RedirectToLogin(cookie)
                /\ req' = req
           ELSE IF info.err
           THEN /\ resp' = [RedirectToLogin(cookie) EXCEPT
                                !.queried = TRUE,
                                !.setCookie = clearSessionCookie]
                /\ req' = req
           ELSE IF ShouldRenew(info.ExpiresAt, now)
           THEN /\ resp' = NoResp
                /\ req' = [req EXCEPT ![r] =
                              [pc |-> "renewing", cookie |-> cookie,
                               user |-> info.User,
                               newExpiresAt |-> now + SessionDuration]]
           ELSE /\ resp' = Serve(cookie, info.User)
                /\ req' = req
    /\ lastSeen' = Presented(cookie)
    /\ UNCHANGED <<clock, users, stats, sessions, expenses>>

\* a gate that turns the request away when RenewSession fails
AuthMiddlewareRenew_FailureFatal(r, dbErr) ==
    /\ req[r].pc = "renewing"
    /\ req' = [req EXCEPT ![r] = IdleReq]
    /\ IF dbErr
       THEN /\ sessions' = sessions
            /\ resp' = [RedirectToLogin(req[r].cookie) EXCEPT
                            !.queried = TRUE, !.renewed = "failed"]
            /\ lastSeen' = [lastSeen EXCEPT ![req[r].cookie.value] = Inactive]
       ELSE /\ sessions' = RenewSession(req[r].cookie.value, req[r].newExpiresAt, clock)
            /\ resp' = [Serve(req[r].cookie, req[r].user) EXCEPT !.renewed = "ok",
                            !.setCookie = IssueSessionCookie(req[r].cookie.value)]
            /\ lastSeen' = IF req[r].newExpiresAt = clock + SessionDuration
                           THEN lastSeen
                           ELSE [lastSeen EXCEPT ![req[r].cookie.value] = Inactive]
    /\ UNCHANGED <<clock, users, stats, expenses>>

\* handlers.go 79-96: call RenewSession, reissue the cookie, call next
AuthMiddlewareRenew(r, dbErr) ==
    /\ req[r].pc = "renewing"
    /\ req' = [req EXCEPT ![r] = IdleReq]
    /\ IF dbErr
       THEN /\ sessions' = sessions
            /\ resp' = [Serve(req[r].cookie, req[r].user) EXCEPT !.renewed = "failed"]
            /\ lastSeen' = [lastSeen EXCEPT ![req[r].cookie.value] = Inactive]
       ELSE /\ sessions' = RenewSession(req[r].cookie.value, req[r].newExpiresAt, clock)
            /\ resp' = [Serve(req[r].cookie, req[r].user) EXCEPT !.renewed = "ok",
                            !.setCookie = IssueSessionCookie(req[r].cookie.value)]
            /\ lastSeen' = IF req[r].newExpiresAt = clock + SessionDuration
                           THEN lastSeen
                           ELSE [lastSeen EXCEPT ![req[r].cookie.value] = Inactive]
    /\ UNCHANGED <<clock, users, stats, expenses>>

---------------------------------------------------------------------------
(* Login *)

\* handlers.go 127: username == "" || password == ""
MissingFields(username, password) ==
    username = <<>> \/ password = <<>>

\* the test of the credentials without its test of the password
BadCredentials_SkipsPassword(found, password) ==
    found.err

\* handlers.go 133: err != nil || !auth.CheckPassword(password, user.PasswordHash)
BadCredentials(found, password) ==
    found.err \/ ~CheckPassword(password, found.user.PasswordHash)

\* handlers.go 118-166; both reads of the clock (handlers.go:147 and
\* CreateSession) are taken at the instant of the INSERT
Login(formUsername, formPassword, token, tokenErr) ==
    LET username == TrimSpace(formUsername)
        found == GetUserByUsername(username)
        expiresAt == clock + SessionDuration
        res == CreateSession(token, found.user.ID, expiresAt, clock)
        render(msg) == [NoResp EXCEPT !.handler = "Login",
                           !.username = formUsername, !.password = formPassword,
                           !.status = StatusOK, !.view = msg]
    IN  /\ IF MissingFields(username, formPassword)
           THEN /\ resp' = render("Username and password are required")
                /\ UNCHANGED <<sessions, lastSeen>>
           ELSE IF BadCredentials(found, formPassword)
           THEN /\ resp' = render("Invalid username or password")
                /\ UNCHANGED <<sessions, lastSeen>>
           ELSE IF tokenErr \/ res.err
           THEN /\ resp' = render("An error occurred. Please try again.")
                /\ UNCHANGED <<sessions, lastSeen>>
           ELSE /\ resp' = [NoResp EXCEPT !.handler = "Login",
                              !.username = formUsername, !.password = formPassword,
                              !.queried = TRUE,
                              !.status = StatusFound, !.location = "/expenses",
                              !.setCookie = IssueSessionCookie(token)]
                /\ sessions' = res.sessions
                /\ lastSeen' = [lastSeen EXCEPT ![token] = {clock}]
        /\ UNCHANGED <<clock, users, stats, expenses, req>>

---------------------------------------------------------------------------
(* Logout and the expired-session sweep *)

\* a logout that clears the cookie and leaves the session row in place
Logout_KeepsRow(cookie) ==
    /\ sessions' = sessions
    /\ resp' = [NoResp EXCEPT !.handler = "Logout", !.cookie = cookie,
                    !.queried = cookie.present,
                    !.status = StatusFound, !.location = "/login",
                    !.setCookie = clearSessionCookie]
    /\ lastSeen' = IF cookie.present /\ cookie.value \in Tokens
                   THEN [lastSeen EXCEPT ![cookie.value] = Inactive]
                   ELSE lastSeen
    /\ UNCHANGED <<clock, users, stats, expenses, req>>

\* handlers.go 169-177
Logout(cookie) ==
    /\ sessions' = IF cookie.present THEN DeleteSession(cookie.value) ELSE sessions
    /\ resp' = [NoResp EXCEPT !.handler = "Logout", !.cookie = cookie,
                    !.queried = cookie.present,
                    !.status = StatusFound, !.location = "/login",
                    !.setCookie = clearSessionCookie]
    /\ lastSeen' = IF cookie.present /\ cookie.value \in Tokens
                   THEN [lastSeen EXCEPT ![cookie.value] = Inactive]
                   ELSE lastSeen
    /\ UNCHANGED <<clock, users, stats, expenses, req>>

\* a call of CleanExpiredSessions (periodic housekeeping)
Sweep ==
    /\ sessions' = CleanExpiredSessions(clock)
    /\ resp' = [NoResp EXCEPT !.handler = "CleanExpiredSessions"]
    /\ UNCHANGED <<clock, users, stats, expenses, req, lastSeen>>

---------------------------------------------------------------------------
(* The expense handlers *)

\* a parseForm that takes a missing date for the zero time
parseForm_DateOptional(form) ==
    LET desc == IF form.description = "" THEN "Expense" ELSE form.description
        parsed == ParseTime(form.date)
    IN  IF form.date # <<>> /\ parsed.err
        THEN [err |-> TRUE, amount |-> 0, desc |-> "", category |-> "",
              date |-> ZeroTime]
        ELSE [err |-> FALSE, amount |-> ParseFloat(form.amount).value,
              desc |-> desc, category |-> "", date |-> parsed.time]

\* handlers.go 349-367.  The named result category is declared at line 349
\* and never assigned: it is returned with its zero value.
parseForm(form) ==
    LET desc == IF form.description = "" THEN "Expense" ELSE form.description
        parsed == ParseTime(form.date)
    IN  IF form.date = <<>> \/ parsed.err
        THEN [err |-> TRUE, amount |-> 0, desc |-> "", category |-> "",
              date |-> ZeroTime]
        ELSE [err |-> FALSE, amount |-> ParseFloat(form.amount).value,
              desc |-> desc, category |-> "", date |-> parsed.time]

\* http.Error(w, ..., code)
ErrorResponse(handler, form, code) ==
    [NoResp EXCEPT !.handler = handler, !.form = form, !.status = code]

\* w.Header().Set("HX-Location", ...) and the implicit 200
HXLocation(handler, form, e) ==
    [NoResp EXCEPT !.handler = handler, !.form = form, !.expense = e,
                   !.queried = TRUE, !.status = StatusOK,
                   !.location = "/expenses"]

\* handlers.go 316-329
Handlers_CreateExpense(form, dbErr) ==
    LET p == parseForm(form)
    IN  /\ IF p.err
           THEN /\ resp' = ErrorResponse("CreateExpense", form, StatusBadRequest)
                /\ expenses' = expenses
           ELSE IF dbErr
           THEN /\ resp' = [ErrorResponse("CreateExpense", form,
                                          StatusInternalServerError)
                                EXCEPT !.queried = TRUE]
                /\ expenses' = expenses
           ELSE /\ Cardinality(expenses) < MaxExpenses
                /\ expenses' = CreateExpense(p.amount, p.desc, p.category,
                                             p.date, clock)
                /\ resp' = HXLocation("CreateExpense", form,
                                [ID |-> NextExpenseID, Amount |-> p.amount,
                                 Description |-> p.desc,
                                 Category |-> p.category, Date |-> p.date])
        /\ UNCHANGED <<clock, users, stats, sessions, req, lastSeen>>

\* handlers.go 331-347; id is 0 when the path value is not a number
Handlers_UpdateExpense(id, form, dbErr) ==
    LET p == parseForm(form)
        e == [ID |-> id, Amount |-> p.amount, Description |-> p.desc,
              Category |-> p.category, Date |-> p.date]
    IN  /\ IF p.err
           THEN /\ resp' = [ErrorResponse("UpdateExpense", form, StatusBadRequest)
                                EXCEPT !.expense = [NoExpense EXCEPT !.ID = id]]
                /\ expenses' = expenses
           ELSE IF dbErr
           THEN /\ resp' = [ErrorResponse("UpdateExpense", form,
                                          StatusInternalServerError)
                                EXCEPT !.queried = TRUE,
                                       !.expense = [NoExpense EXCEPT !.ID = id]]
                /\ expenses' = expenses
           ELSE /\ expenses' = UpdateExpense(e)
                /\ resp' = HXLocation("UpdateExpense", form, e)
        /\ UNCHANGED <<clock, users, stats, sessions, req, lastSeen>>

\* handlers.go 256-289, as far as the rows that it renders
Handlers_ListExpenses(dbErr) ==
    /\ IF dbErr
       THEN resp' = [ErrorResponse("ListExpenses", NoForm,
                                   StatusInternalServerError)
                        EXCEPT !.queried = TRUE]
       ELSE \E list \in ListExpenses(clock) :
            resp' = [NoResp EXCEPT !.handler = "ListExpenses", !.queried = TRUE,
                                   !.status = StatusOK, !.view = "list.html",
                                   !.list = list]
    /\ UNCHANGED <<clock, users, stats, sessions, expenses, req, lastSeen>>

\* a direct call of db.CreateExpense
Storage_CreateExpense(amount, description, category, date) ==
    /\ Cardinality(expenses) < MaxExpenses
    /\ expenses' = CreateExpense(amount, description, category, date, clock)
    /\ resp' = [NoResp EXCEPT !.handler = "db.CreateExpense", !.queried = TRUE,
                    !.expense = [ID |-> NextExpenseID, Amount |-> amount,
                                 Description |-> description,
                                 Category |-> category, Date |-> date]]
    /\ UNCHANGED <<clock, users, stats, sessions, req, lastSeen>>

\* a direct call of db.UpdateExpense
Storage_UpdateExpense(e) ==
    /\ expenses' = UpdateExpense(e)
    /\ resp' = [NoResp EXCEPT !.handler = "db.UpdateExpense", !.queried = TRUE,
                    !.expense = e]
    /\ UNCHANGED <<clock, users, stats, sessions, req, lastSeen>>

---------------------------------------------------------------------------
(* internal/storage: the reads of the statistics page *)

\* the expenses whose date falls in a period; month 0 is the whole year
InPeriod(year, month) ==
    {e \in expenses : /\ Civil(e.Date).year = year
                      /\ month = 0 \/ Civil(e.Date).month = month}

\* SUM(amount)
RECURSIVE SumAmounts(_)
SumAmounts(rows) ==
    IF rows = {} THEN 0
    ELSE LET e == CHOOSE x \in rows : TRUE
         IN  e.Amount + SumAmounts(rows \ {e})

\* SUM(amount), COUNT(*) ... GROUP BY category
CategoryTotalsOf(rows) ==
    {[Category |-> c,
      Total |-> SumAmounts({e \in rows : e.Category = c}),
      Count |-> Cardinality({e \in rows : e.Category = c})] :
        c \in {e.Category : e \in rows}}

GetCategoryTotalsByMonth(year, month) == CategoryTotalsOf(InPeriod(year, month))

GetCategoryTotalsByYear(year) == CategoryTotalsOf(InPeriod(year, 0))

GetExpensesByMonth(year, month) == InPeriod(year, month)

GetExpensesByYear(year) == InPeriod(year, 0)

\* the sum of every calendar day of the month that has an expense
GetDailyTotalsForMonth(year, month) ==
    LET rows == InPeriod(year, month)
    IN  {[Day |-> d,
          Total |-> SumAmounts({e \in rows : Civil(e.Date).day = d})] :
            d \in {Civil(e.Date).day : e \in rows}}

\* the sum of every month of the year that has an expense
GetMonthlyTotalsForYear(year) ==
    LET rows == InPeriod(year, 0)
    IN  {[Month |-> m,
          Total |-> SumAmounts({e \in rows : Civil(e.Date).month = m})] :
            m \in {Civil(e.Date).month : e \in rows}}

GetTotalForPeriod(year, month) == SumAmounts(InPeriod(year, month))

---------------------------------------------------------------------------
(* internal/handlers: Statistics *)

\* strconv.Atoi, for the texts a query carries
Atoi(str) ==
    IF str = "2023" THEN [err |-> FALSE, n |-> 2023]
    ELSE IF str = "2" THEN [err |-> FALSE, n |-> 2]
    ELSE IF str = "13" THEN [err |-> FALSE, n |-> 13]
    ELSE [err |-> TRUE, n |-> 0]

\* strconv.Itoa, for the days of a month
Itoa(n) ==
    <<"1", "2", "3", "4", "5", "6", "7", "8", "9", "10",
      "11", "12", "13", "14", "15", "16", "17", "18", "19", "20",
      "21", "22", "23", "24", "25", "26", "27", "28", "29", "30", "31">>[n]

monthNames ==
    <<"Jan", "Feb", "Mar", "Apr", "May", "Jun",
      "Jul", "Aug", "Sep", "Oct", "Nov", "Dec">>

\* math.Abs
Abs(x) == IF x < 0 THEN -x ELSE x

\* f > 0
FracPositive(f) ==
    \/ f.num > 0 /\ f.den > 0
    \/ f.num < 0 /\ f.den < 0

FracAbs(f) == Frac(Abs(f.num), Abs(f.den))

\* a change that is computed for every prior total that is not negative
percentageChange_Unguarded(total, prevTotal) ==
    IF prevTotal >= 0
    THEN LET change == Frac((total - prevTotal) * 100, prevTotal)
         IN  [HasChange |-> TRUE, IsIncrease |-> FracPositive(change),
              PercentageChange |-> FracAbs(change)]
    ELSE [HasChange |-> FALSE, IsIncrease |-> FALSE,
          PercentageChange |-> FracZero]

\* statistics.go 116-125 and 250-259
percentageChange(total, prevTotal) ==
    IF prevTotal > 0
    THEN LET change == Frac((total - prevTotal) * 100, prevTotal)
         IN  [HasChange |-> TRUE, IsIncrease |-> FracPositive(change),
              PercentageChange |-> FracAbs(change)]
    ELSE [HasChange |-> FALSE, IsIncrease |-> FALSE,
          PercentageChange |-> FracZero]

\* time.Date(year, time.Month(month)+1, 0, ...).Day()
daysInMonth(year, month) == Civil(time_Date(year, month + 1, 0)).day

\* time.Date(year, time.Month(month), 1, ...).AddDate(0, -1, 0)
prevDate(year, month) == Civil(time_Date(year, month - 1, 1))

\* dailyMap[day] and monthlyMap[month]: 0 for a key that is absent
dailyMap(dailyTotals, day) ==
    LET hits == {dt \in dailyTotals : dt.Day = day}
    IN  IF hits = {} THEN 0 ELSE (CHOOSE dt \in hits : TRUE).Total

monthlyMap(monthlyTotals, month) ==
    LET hits == {mt \in monthlyTotals : mt.Month = month}
    IN  IF hits = {} THEN 0 ELSE (CHOOSE mt \in hits : TRUE).Total

\* a chart with a label on every tenth day
chartData_EveryTenth(year, month, dailyTotals) ==
    [day \in 1..daysInMonth(year, month) |->
        [Label |-> IF day \in {1, 10, 20, 30, daysInMonth(year, month)}
                   THEN Itoa(day) ELSE "",
         Value |-> dailyMap(dailyTotals, day)]]

\* statistics.go 134-158
chartData(year, month, dailyTotals) ==
    [day \in 1..daysInMonth(year, month) |->
        [Label |-> IF day \in {1, 10, 20, daysInMonth(year, month)}
                   THEN Itoa(day) ELSE "",
         Value |-> dailyMap(dailyTotals, day)]]

\* statistics.go 160-174 and 288-302
categoryItems(categoryTotals, total) ==
    {[Category |-> ct.Category, Total |-> ct.Total, Count |-> ct.Count,
      Percentage |-> IF total > 0 THEN Frac(ct.Total * 100, total)
                     ELSE FracZero] : ct \in categoryTotals}

\* statistics.go 116-221, after the reads
buildMonthView(year, month, categoryTotals, rows, dailyTotals, total, prev) ==
    LET change == percentageChange(total, prev)
    IN  [ViewMode |-> "month", Year |-> year, Month |-> month,
         Total |-> total,
         PercentageChange |-> change.PercentageChange,
         IsIncrease |-> change.IsIncrease, HasChange |-> change.HasChange,
         AverageSpending |-> IF daysInMonth(year, month) > 0
                             THEN Frac(total, daysInMonth(year, month))
                             ELSE FracZero,
         Categories |-> categoryItems(categoryTotals, total),
         Expenses |-> rows,
         ChartData |-> chartData(year, month, dailyTotals),
         PrevYear |-> prevDate(year, month).year,
         PrevMonth |-> prevDate(year, month).month]

\* statistics.go 250-340, after the reads
buildYearView(year, categoryTotals, rows, monthlyTotals, total, prevTotal) ==
    LET change == percentageChange(total, prevTotal)
    IN  [ViewMode |-> "year", Year |-> year, Month |-> 0,
         Total |-> total,
         PercentageChange |-> change.PercentageChange,
         IsIncrease |-> change.IsIncrease, HasChange |-> change.HasChange,
         AverageSpending |-> Frac(total, 12),
         Categories |-> categoryItems(categoryTotals, total),
         Expenses |-> rows,
         ChartData |-> [i \in 1..12 |->
                            [Label |-> monthNames[i],
                             Value |-> monthlyMap(monthlyTotals, i)]],
         PrevYear |-> year - 1, PrevMonth |-> 0]

\* h.render(w, r, "stats.html", viewModel)
render(viewModel, failed) ==
    [NoResp EXCEPT !.handler = "Statistics", !.queried = TRUE,
                   !.status = StatusOK, !.view = "stats.html",
                   !.model = viewModel, !.failed = failed]

\* statistics.go 51-93 and 223-229: the query, and the first read
Statistics(query, dbErr) ==
    /\ stats.pc = "idle"
    /\ LET now == Civil(clock)
           y == Atoi(query.year)
           m == Atoi(query.month)
           year == IF query.year # "" /\ ~y.err THEN y.n ELSE now.year
           month == IF query.month # "" /\ ~m.err /\ m.n >= 1 /\ m.n <= 12
                    THEN m.n ELSE now.month
           viewMode == IF query.view = "" THEN "month" ELSE query.view
       IN  IF dbErr
           THEN /\ stats' = NoStats
                /\ resp' = render(ZeroViewModel, {"GetCategoryTotals"})
           ELSE /\ stats' =
                     [NoStats EXCEPT
                        !.pc = "GetExpenses", !.viewMode = viewMode,
                        !.year = year,
                        !.month = IF viewMode = "year" THEN 0 ELSE month,
                        !.categoryTotals =
                            IF viewMode = "year"
                            THEN GetCategoryTotalsByYear(year)
                            ELSE GetCategoryTotalsByMonth(year, month)]
                /\ resp' = NoResp
    /\ UNCHANGED <<clock, users, sessions, expenses, req, lastSeen>>

\* statistics.go 95-101 and 231-236
Statistics_GetExpenses(dbErr) ==
    /\ stats.pc = "GetExpenses"
    /\ IF dbErr
       THEN /\ stats' = NoStats
            /\ resp' = render(ZeroViewModel, {"GetExpenses"})
       ELSE /\ stats' = [stats EXCEPT
                            !.pc = "GetTotals",
                            !.expenses =
                                IF stats.viewMode = "year"
                                THEN GetExpensesByYear(stats.year)
                                ELSE GetExpensesByMonth(stats.year, stats.month)]
            /\ resp' = NoResp
    /\ UNCHANGED <<clock, users, sessions, expenses, req, lastSeen>>

\* statistics.go 103-107 and 238-242: an error is logged, nothing more
Statistics_GetTotals(dbErr) ==
    /\ stats.pc = "GetTotals"
    /\ stats' = [stats EXCEPT
                    !.pc = "GetTotalForPeriod",
                    !.periodTotals =
                        IF dbErr THEN {}
                        ELSE IF stats.viewMode = "year"
                        THEN GetMonthlyTotalsForYear(stats.year)
                        ELSE GetDailyTotalsForMonth(stats.year, stats.month),
                    !.failed = IF dbErr THEN @ \cup {"GetTotals"} ELSE @]
    /\ resp' = NoResp
    /\ UNCHANGED <<clock, users, sessions, expenses, req, lastSeen>>

\* statistics.go 110 and 245: the error is dropped
Statistics_GetTotalForPeriod(dbErr) ==
    /\ stats.pc = "GetTotalForPeriod"
    /\ stats' = [stats EXCEPT
                    !.pc = "GetPrevTotal",
                    !.total = IF dbErr THEN 0
                              ELSE GetTotalForPeriod(stats.year, stats.month),
                    !.failed = IF dbErr THEN @ \cup {"GetTotalForPeriod"}
                               ELSE @]
    /\ resp' = NoResp
    /\ UNCHANGED <<clock, users, sessions, expenses, req, lastSeen>>

\* statistics.go 113-114 and 248: the error is dropped
Statistics_GetPrevTotal(dbErr) ==
    /\ stats.pc = "GetPrevTotal"
    /\ LET prev == IF stats.viewMode = "year"
                   THEN [year |-> stats.year - 1, month |-> 0]
                   ELSE prevDate(stats.year, stats.month)
       IN  stats' = [stats EXCEPT
                        !.pc = "render",
                        !.prevTotal = IF dbErr THEN 0
                                      ELSE GetTotalForPeriod(prev.year,
                                                             prev.month),
                        !.failed = IF dbErr THEN @ \cup {"GetPrevTotal"}
                                   ELSE @]
    /\ resp' = NoResp
    /\ UNCHANGED <<clock, users, sessions, expenses, req, lastSeen>>

\* statistics.go 116-221, 250-340 and 85
Statistics_render ==
    /\ stats.pc = "render"
    /\ resp' = render(IF stats.viewMode = "year"
                      THEN buildYearView(stats.year, stats.categoryTotals,
                                         stats.expenses, stats.periodTotals,
                                         stats.total, stats.prevTotal)
                      ELSE buildMonthView(stats.year, stats.month,
                                          stats.categoryTotals, stats.expenses,
                                          stats.periodTotals, stats.total,
                                          stats.prevTotal),
                      stats.failed)
    /\ stats' = NoStats
    /\ UNCHANGED <<clock, users, sessions, expenses, req, lastSeen>>

---------------------------------------------------------------------------
(* Workloads *)

\* the usernames that the operator has not yet given to adduser
NewUsernames == {u \in Usernames : GetUserByUsername(u).err}

\* one session over its whole life, presented by concurrent requests
Next ==
    \/ Tick(MaxTime)
    \/ \E u \in NewUsernames, p \in Passwords : run(u, p, NoStdin)
    \/ \E r \in ReqIds, c \in RequestCookies : AuthMiddleware(r, c)
    \/ \E r \in ReqIds, dbErr \in BOOLEAN : AuthMiddlewareRenew(r, dbErr)
    \/ \E u \in Usernames, p \in Passwords : Login(u, p, "t1", FALSE)
    \/ \E c \in RequestCookies : Logout(c)
    \/ Sweep

Spec == Init /\ [][Next]_vars

\* the sessions of two users during their first days
NextUsers ==
    \/ Tick(ShortTime)
    \/ \E u \in NewUsernames, p \in Passwords : run(u, p, NoStdin)
    \/ \E r \in ReqIds, c \in RequestCookies : AuthMiddleware(r, c)
    \/ \E r \in ReqIds, dbErr \in BOOLEAN : AuthMiddlewareRenew(r, dbErr)
    \/ \E u \in FormUsernames, p \in FormPasswords, t \in Tokens, e \in BOOLEAN :
            Login(u, p, t, e)

SpecUsers == Init /\ [][NextUsers]_vars

\* two sessions that are logged out while requests carry their tokens
NextLogout ==
    \/ Tick(ShortTime)
    \/ \E u \in NewUsernames, p \in Passwords : run(u, p, NoStdin)
    \/ \E r \in ReqIds, c \in RequestCookies : AuthMiddleware(r, c)
    \/ \E r \in ReqIds : AuthMiddlewareRenew(r, FALSE)
    \/ \E u \in Usernames, p \in Passwords, t \in Tokens : Login(u, p, t, FALSE)
    \/ \E c \in RequestCookies : Logout(c)

SpecLogout == Init /\ [][NextLogout]_vars

\* the dates at which direct calls store expenses
StorageDates == {time_Date(2024, 2, 2)}

\* the expense store across the end of January 2024
NextExpenses ==
    \/ Tick(time_Date(2024, 2, 1))
    \/ \E form \in Forms, dbErr \in BOOLEAN : Handlers_CreateExpense(form, dbErr)
    \/ \E id \in ExpenseIds, form \in Forms, dbErr \in BOOLEAN :
            Handlers_UpdateExpense(id, form, dbErr)
    \/ \E dbErr \in BOOLEAN : Handlers_ListExpenses(dbErr)
    \/ \E a \in StorageAmounts, d \in StorageDescriptions,
          c \in StorageCategories, t \in StorageDates :
            Storage_CreateExpense(a, d, c, t)
    \/ \E id \in ExpenseIds, a \in StorageAmounts, d \in StorageDescriptions,
          c \in StorageCategories, t \in StorageDates :
            Storage_UpdateExpense([ID |-> id, Amount |-> a, Description |-> d,
                                   Category |-> c, Date |-> t])

SpecExpenses == Init /\ [][NextExpenses]_vars

\* the expenses that the statistics page is asked about
StatsExpenses ==
    {[Amount |-> 500, Description |-> "Bus", Category |-> "transport",
      Date |-> time_Date(2023, 12, 31)],
     [Amount |-> 500, Description |-> "Bus", Category |-> "transport",
      Date |-> time_Date(2024, 1, 1)],
     [Amount |-> 1500, Description |-> "Lunch", Category |-> "food",
      Date |-> time_Date(2024, 1, 10)],
     [Amount |-> -2000, Description |-> "[Income]", Category |-> "food",
      Date |-> time_Date(2024, 1, 10)]}

\* the queries of the statistics page
StatsQueries ==
    [view : {"", "year"}, year : {"", "2023"}, month : {"", "2", "13"}]

\* the statistics page while expenses are stored, on January 17, 2024
NextStats ==
    \/ \E e \in StatsExpenses :
            Storage_CreateExpense(e.Amount, e.Description, e.Category, e.Date)
    \/ \E query \in StatsQueries, dbErr \in BOOLEAN : Statistics(query, dbErr)
    \/ \E dbErr \in BOOLEAN : Statistics_GetExpenses(dbErr)
    \/ \E dbErr \in BOOLEAN : Statistics_GetTotals(dbErr)
    \/ \E dbErr \in BOOLEAN : Statistics_GetTotalForPeriod(dbErr)
    \/ \E dbErr \in BOOLEAN : Statistics_GetPrevTotal(dbErr)
    \/ Statistics_render

SpecStats == Init /\ [][NextStats]_vars

\* one session until the end of its first lifetime, with the sweep running
\* beside the requests and without logout
NextSweep ==
    \/ Tick(SessionDuration)
    \/ \E u \in NewUsernames, p \in Passwords : run(u, p, NoStdin)
    \/ \E r \in ReqIds, c \in RequestCookies : AuthMiddleware(r, c)
    \/ \E r \in ReqIds, dbErr \in BOOLEAN : AuthMiddlewareRenew(r, dbErr)
    \/ \E u \in Usernames, p \in Passwords : Login(u, p, "t1", FALSE)
    \/ Sweep

SpecSweep == Init /\ [][NextSweep]_vars

\* the flags and the standard input of the runs of adduser
AdduserUsernames == Usernames \cup {<<>>}

AdduserPasswords == Passwords \cup {<<>>, <<" ">>}

AdduserStdin == {NoStdin, << <<>> >>, << <<"q">> >>}

\* runs of adduser, one after the other
NextAdduser ==
    \E u \in AdduserUsernames, p \in AdduserPasswords, in \in AdduserStdin :
        run(u, p, in)

SpecAdduser == Init /\ [][NextAdduser]_vars

---------------------------------------------------------------------------
(* Properties *)

\* the row of a token, and whether a step is a first step of AuthMiddleware
\* that answered at once
RowsOf(token) == {s \in sessions : s.token = token}

Answered == req' = req /\ resp'.handler = "AuthMiddleware"

Entered(r) == req[r].pc = "idle" /\ req'[r].pc = "renewing"

Left(r) == req[r].pc = "renewing" /\ req'[r].pc = "idle"

\* C1: ValidateSession and ValidateSessionWithInfo succeed for a token at a
\* clock value if and only if a row of that token exists and its expires_at
\* is strictly greater than that clock value; expires_at = now is rejected.
C1_ValidateIffUnexpiredRow ==
    \A tok \in Tokens \cup {""}, now \in Instants :
        /\ ~ValidateSessionWithInfo(tok, now).err
                <=> \E s \in sessions : s.token = tok /\ s.expires_at > now
        /\ ValidateSession(tok, now).err = ValidateSessionWithInfo(tok, now).err
        /\ \A s \in sessions : s.token = tok /\ s.expires_at = now
                => ValidateSession(tok, now).err

\* a request is turned away at the very instant its session expires
C1_Witness ==
    /\ resp.handler = "AuthMiddleware"
    /\ resp.location = "/login"
    /\ \E s \in sessions : s.token = resp.cookie.value /\ s.expires_at = clock

\* C2 (as claimed): renewal never shortens expires_at, under any interleaving
\* of requests carrying the same token.  The claim asks for a strictly greater
\* expires_at after every RenewSession write of the gate; stated here is the
\* weaker half, that the write never stores a smaller one (two requests of
\* the same day store equal values, which is no shortening).
C2_RenewalNeverShortens ==
    [][\A r \in ReqIds :
          Left(r) /\ resp'.renewed = "ok"
          => \A s \in RowsOf(req[r].cookie.value) :
                \E s2 \in sessions' :
                    s2.token = s.token /\ s2.expires_at >= s.expires_at]_vars

\* C3: a request that passes validation goes on to RenewSession if and only
\* if expiresAt - now < SessionDuration / 2; of a 30-day session, day 14 and
\* the exact half (day 15) are not renewed and day 16 is.
C3_RenewIffPastHalf ==
    [][/\ \A r \in ReqIds :
            Entered(r) =>
                \E s \in RowsOf(req'[r].cookie.value) :
                    /\ s.expires_at > clock
                    /\ s.expires_at - clock < SessionDuration \div 2
                    /\ req'[r].newExpiresAt = clock + SessionDuration
       /\ Answered /\ resp'.served =>
                \E s \in RowsOf(resp'.cookie.value) :
                    /\ s.expires_at > clock
                    /\ ~(s.expires_at - clock < SessionDuration \div 2)
                    /\ resp'.renewed = "no"
       /\ ~ShouldRenew(30, 14) /\ ~ShouldRenew(30, 15) /\ ShouldRenew(30, 16)
      ]_vars

\* a session created on day 0 is being renewed on day 16
C3_Witness ==
    \E r \in ReqIds :
        /\ req[r].pc = "renewing"
        /\ clock = 16
        /\ req[r].newExpiresAt = 46
        /\ \E s \in RowsOf(req[r].cookie.value) : s.expires_at = 30

\* C4: active users stay logged in.  A token whose session was created by
\* Login and that has since been presented less than SessionDuration / 2 after
\* Login and after every previous request, each request handled at the instant
\* it arrived, with no logout and no failed renewal write, is admitted at every
\* one of those requests, and after each of them its session has at least half
\* its lifetime left.
InFlight(tok) ==
    \E r \in ReqIds : req[r].pc = "renewing" /\ req[r].cookie.value = tok

C5_HardExpiryCeiling ==
    /\ \A s \in sessions : s.expires_at <= s.last_activity + SessionDuration
    /\ \A s \in sessions :
            clock >= s.last_activity + SessionDuration
                => ValidateSessionWithInfo(s.token, clock).err
    /\ \A r \in ReqIds : req[r].pc = "renewing"
            => req[r].newExpiresAt <= clock + SessionDuration

\* a token unused for 30 days is turned away although its row is still stored
C5_Witness ==
    /\ resp.handler = "AuthMiddleware"
    /\ resp.location = "/login"
    /\ ~resp.served
    /\ \E s \in RowsOf(resp.cookie.value) :
            /\ s.last_activity > 0
            /\ clock >= s.last_activity + SessionDuration

\* C6: when the token of the request cookie fails validation (no row, or an
\* expired row), the gate clears the session cookie, redirects to the login
\* page, does not call the downstream handler, attempts no renewal and leaves
\* the session store unchanged.
C6_InvalidTokenRejected ==
    [][(/\ resp'.handler = "AuthMiddleware"
        /\ resp'.renewed = "no"
        /\ resp'.cookie.present /\ resp'.cookie.value # ""
        /\ ~\E s \in RowsOf(resp'.cookie.value) : s.expires_at > clock)
       => /\ resp'.setCookie.set
          /\ resp'.setCookie.value = ""
          /\ resp'.setCookie.maxAge < 0
          /\ resp'.status = 302 /\ resp'.location = "/login"
          /\ ~resp'.served
          /\ resp'.ctxUser = NoUser
          /\ req' = req
          /\ sessions' = sessions /\ users' = users]_vars

\* the gate has just turned away a token whose row is expired
C6_Witness ==
    /\ resp.handler = "AuthMiddleware"
    /\ resp.setCookie.set /\ resp.setCookie.maxAge < 0
    /\ resp.location = "/login"
    /\ \E s \in RowsOf(resp.cookie.value) : s.expires_at <= clock

\* C7: a request without a session cookie, or with an empty one, is answered
\* with a 302 redirect to the login page; the downstream handler is not called
\* and the session store is neither read nor modified.
C7_MissingCookieRedirected ==
    [][(/\ resp'.handler = "AuthMiddleware"
        /\ ~resp'.cookie.present \/ resp'.cookie.value = "")
       => /\ resp'.status = 302 /\ resp'.location = "/login"
          /\ ~resp'.served
          /\ ~resp'.queried
          /\ req' = req
          /\ sessions' = sessions /\ users' = users]_vars

\* the gate has just answered a request whose cookie is present but empty,
\* while a valid session exists
C7_Witness ==
    /\ resp.handler = "AuthMiddleware"
    /\ resp.cookie.present /\ resp.cookie.value = ""
    /\ resp.status = 302
    /\ \E s \in sessions : s.expires_at > clock

\* C8: if RenewSession fails for a request whose token validated, the request
\* is still admitted: the downstream handler is called with the validated
\* user, no cookie is reissued, and the stored session keeps its expires_at
\* and last_activity.
C8_RenewalFailureNotFatal ==
    [][\A r \in ReqIds :
          Left(r) /\ resp'.renewed = "failed"
          => /\ resp'.served
             /\ resp'.status = 200
             /\ resp'.location = ""
             /\ resp'.ctxUser = req[r].user
             /\ resp'.ctxUser \in users
             /\ resp'.cookie = req[r].cookie
             /\ ~resp'.setCookie.set
             /\ sessions' = sessions]_vars

\* a request was served after its renewal failed, the row still unrenewed
C8_Witness ==
    /\ resp.handler = "AuthMiddleware"
    /\ resp.renewed = "failed"
    /\ resp.served
    /\ \E s \in RowsOf(resp.cookie.value) :
            s.expires_at > clock /\ s.expires_at - clock < 15

\* C9: the identity that the gate attaches to a request is the user who owns
\* the session row of the token which that same request presented, whatever
\* other requests with tokens of other users are in flight.
C9_IdentityOfOwnToken ==
    [][/\ Answered /\ resp'.served
            => /\ resp'.ctxUser \in users
               /\ \E s \in RowsOf(resp'.cookie.value) :
                        s.user_id = resp'.ctxUser.ID
       /\ \A r \in ReqIds :
            /\ Entered(r)
                => /\ req'[r].user \in users
                   /\ \E s \in RowsOf(req'[r].cookie.value) :
                            s.user_id = req'[r].user.ID
            /\ Left(r)
                => /\ resp'.cookie = req[r].cookie
                   /\ resp'.served => resp'.ctxUser = req[r].user
            /\ req[r].pc = "renewing" /\ req'[r].pc = "renewing"
                => req'[r] = req[r]
      ]_vars

\* a request of one user is served while a request of another user is in
\* flight
C9_Witness ==
    /\ resp.handler = "AuthMiddleware"
    /\ resp.served
    /\ resp.renewed = "ok"
    /\ \E r \in ReqIds :
            /\ req[r].pc = "renewing"
            /\ req[r].user # resp.ctxUser
            /\ req[r].cookie # resp.cookie

\* C10: a session row is created only by a Login whose (trimmed) username
\* exists and whose password verifies against the hash of that user, with the
\* user_id of that user and expires_at = now + SessionDuration; a Login with
\* an empty field, an unknown username or a wrong password leaves the session
\* store unchanged and sets no session cookie.
C10_SessionOnlyByValidLogin ==
    [][/\ \A s \in sessions' :
            (~\E old \in sessions : old.token = s.token)
                => /\ resp'.handler = "Login"
                   /\ resp'.setCookie.set /\ resp'.setCookie.value = s.token
                   /\ s.expires_at = clock + SessionDuration
                   /\ \E u \in users :
                        /\ u.Username = TrimSpace(resp'.username)
                        /\ u.PasswordHash = HashPassword(resp'.password)
                        /\ s.user_id = u.ID
       /\ (/\ resp'.handler = "Login"
           /\ \/ TrimSpace(resp'.username) = <<>>
              \/ resp'.password = <<>>
              \/ ~\E u \in users :
                    /\ u.Username = TrimSpace(resp'.username)
                    /\ u.PasswordHash = HashPassword(resp'.password))
            => /\ sessions' = sessions
               /\ ~resp'.setCookie.set
               /\ resp'.location # "/expenses"
      ]_vars

\* a Login with the password of an existing user has created that user's
\* session
C10_Witness ==
    /\ resp.handler = "Login"
    /\ resp.setCookie.set
    /\ \E s \in RowsOf(resp.setCookie.value), u \in users :
            /\ s.user_id = u.ID
            /\ u.Username = TrimSpace(resp.username)
            /\ resp.username # u.Username
            /\ s.expires_at = clock + SessionDuration

C12_DeleteSessionIdempotent ==
    [][/\ \A tok \in Tokens \cup {""} :
            RowsOf(tok) = {} => DeleteSession(tok) = sessions
       /\ resp'.handler = "Logout" /\ resp'.cookie.present
            => /\ \A tok \in Tokens \cup {""} :
                    tok = resp'.cookie.value => DeleteSession(tok)' = sessions'
               /\ RowsOf(resp'.cookie.value) = {}
                    => /\ sessions' = sessions
                       /\ resp'.status = StatusFound
                       /\ resp'.location = "/login"
      ]_vars

\* a logout with a token that never had a row, while another session is stored
C12_Witness ==
    /\ resp.handler = "Logout"
    /\ resp.cookie.present
    /\ resp.cookie.value = "t2"
    /\ \E s \in sessions : s.token = "t1" /\ s.expires_at > clock

\* C13: CleanExpiredSessions removes exactly the rows with expires_at <= now
\* and leaves every other row as it is, so the result of ValidateSession is
\* the same for every token before and after the sweep; a second sweep at the
\* same clock value changes nothing more.
C13_SweepRemovesExactlyExpired ==
    [][resp'.handler = "CleanExpiredSessions"
        => /\ sessions' = {s \in sessions : s.expires_at > clock}
           /\ \A s \in sessions : s.expires_at <= clock => s \notin sessions'
           /\ \A tok \in Tokens \cup {""} :
                ValidateSession(tok, clock)' = ValidateSession(tok, clock)
           /\ CleanExpiredSessions(clock)' = sessions'
           /\ users' = users /\ clock' = clock
      ]_vars

\* the sweep has removed the row of a session that expired, not logged out,
\* on this very day
C13_Witness ==
    /\ resp.handler = "CleanExpiredSessions"
    /\ clock = SessionDuration
    /\ lastSeen["t1"] # {}
    /\ RowsOf("t1") = {}

\* C14: create / validate round trip.  For a session created at clock value c
\* with expiresAt > c, ValidateSessionWithInfo at any instant before expiresAt
\* returns the user it was created for, ExpiresAt = expiresAt and
\* LastActivity = c, as long as the row has not been renewed: no step other
\* than a renewal, a logout or a sweep changes a session row.
C14_CreateValidateRoundTrip ==
    [][/\ resp'.handler = "Login" /\ resp'.setCookie.set
            => \A tok \in Tokens, now \in Instants :
                    (/\ tok = resp'.setCookie.value
                     /\ now >= clock /\ now < clock + SessionDuration)
                    => /\ ~ValidateSessionWithInfo(tok, now)'.err
                       /\ ValidateSessionWithInfo(tok, now)'.User \in users
                       /\ ValidateSessionWithInfo(tok, now)'.User.Username
                                = TrimSpace(resp'.username)
                       /\ ValidateSessionWithInfo(tok, now)'.ExpiresAt
                                = clock + SessionDuration
                       /\ ValidateSessionWithInfo(tok, now)'.LastActivity
                                = clock
       /\ (/\ resp'.renewed # "ok"
           /\ resp'.handler \notin {"Logout", "CleanExpiredSessions"})
            => \A s \in sessions : s \in sessions'
      ]_vars

\* a session created after day 0 validates with the timestamps of its creation
C14_Witness ==
    /\ resp.handler = "Login"
    /\ resp.setCookie.set
    /\ clock > 0
    /\ ValidateSessionWithInfo(resp.setCookie.value, clock).LastActivity = clock
    /\ ValidateSessionWithInfo(resp.setCookie.value, clock).ExpiresAt
            = clock + SessionDuration

ListedRows(list) == {list[i] : i \in 1..Len(list)}

MonthIndex(t) == 12 * Civil(t).year + Civil(t).month

C17_ListOnlyCurrentMonth ==
    resp.handler = "ListExpenses"
        => \A e \in ListedRows(resp.list) :
                /\ Civil(e.Date).month = Civil(clock).month
                /\ Civil(e.Date).year = Civil(clock).year

\* C18: UpdateExpense overwrites amount, description, category and date of
\* the row with the id of its argument and leaves all other rows unchanged;
\* when no row has that id it succeeds, creates no row and leaves the expense
\* store unchanged.
C18_UpdateExpenseFrame ==
    [][(\/ resp'.handler = "db.UpdateExpense"
        \/ resp'.handler = "UpdateExpense" /\ resp'.status = StatusOK)
        => /\ \A x \in expenses :
                IF x.ID = resp'.expense.ID
                THEN resp'.expense \in expenses'
                ELSE x \in expenses'
           /\ Cardinality(expenses') = Cardinality(expenses)
           /\ {x.ID : x \in expenses'} = {x.ID : x \in expenses}
           /\ (~\E x \in expenses : x.ID = resp'.expense.ID)
                => expenses' = expenses
      ]_vars

\* the handler has answered with success to an update of an id that no row
\* has, the stored rows being as they were
C18_Witness ==
    /\ resp.handler = "UpdateExpense"
    /\ resp.status = StatusOK
    /\ resp.location = "/expenses"
    /\ expenses # {}
    /\ ~\E x \in expenses : x.ID = resp.expense.ID

\* C19 (as claimed): the row written by the CreateExpense or UpdateExpense
\* handler holds the category that was submitted in the form.
C19_CategoryStored ==
    [][(/\ resp'.handler \in {"CreateExpense", "UpdateExpense"}
        /\ resp'.status = StatusOK)
        => \A x \in expenses' :
                x.ID = resp'.expense.ID => x.Category = resp'.form.category
      ]_vars

\* C20: a create or update form without a date, or with a date that does not
\* parse, is answered with 400 and leaves the expense store unchanged.
C20_BadDateRejected ==
    [][(/\ resp'.handler \in {"CreateExpense", "UpdateExpense"}
        /\ \/ resp'.form.date = <<>>
           \/ Len(resp'.form.date) # 3
           \/ resp'.form.date[2] \notin 1..12
           \/ resp'.form.date[3] \notin 1..daysIn(resp'.form.date[1], resp'.form.date[2]))
        => /\ resp'.status = StatusBadRequest
           /\ resp'.location = ""
           /\ ~resp'.queried
           /\ expenses' = expenses
      ]_vars

\* an update of an existing row with February 30 as its date was refused
C20_Witness ==
    /\ resp.handler = "UpdateExpense"
    /\ resp.status = StatusBadRequest
    /\ resp.form.date = <<2024, 2, 30>>
    /\ \E x \in expenses : x.ID = resp.expense.ID


---------------------------------------------------------------------------
(* The statistics page *)

\* the step that renders the view of the request in flight
Rendering == stats.pc = "render" /\ stats'.pc = "idle"

\* a complete view was rendered by the step just taken
Rendered == resp.handler = "Statistics" /\ resp.model.ViewMode # ""

RECURSIVE SumTotals(_)
SumTotals(items) ==
    IF items = {} THEN 0
    ELSE LET i == CHOOSE x \in items : TRUE
         IN  i.Total + SumTotals(items \ {i})

RECURSIVE SumValues(_)
SumValues(points) ==
    IF points = <<>> THEN 0
    ELSE Head(points).Value + SumValues(Tail(points))

\* C21: in month mode and in year mode the percentage change is absent
\* (HasChange false, PercentageChange 0, no division by zero) whenever the
\* total read for the prior period is 0, whatever the current total; and
\* whenever it is reported it is |(total - prevTotal) / prevTotal| * 100,
\* with IsIncrease = (total > prevTotal).
C21_PercentageChange ==
    [][Rendering =>
        LET v == resp'.model
            change == v.PercentageChange
        IN  /\ change.den # 0
            /\ stats.prevTotal = 0 => ~v.HasChange /\ change.num = 0
            /\ v.HasChange =>
                  /\ change.num * Abs(stats.prevTotal)
                        = Abs(stats.total - stats.prevTotal) * 100 * change.den
                  /\ v.IsIncrease = (stats.total > stats.prevTotal)]_vars

\* a month view reports an increase over a prior month that had expenses
C21_Witness ==
    /\ Rendered
    /\ resp.model.ViewMode = "month"
    /\ resp.model.HasChange /\ resp.model.IsIncrease
    /\ resp.model.PercentageChange.num > 0

\* the years whose months are counted
ChartYears == 2023..2024

\* C22: for every year and every month in 1..12 the month chart has
\* daysInMonth(year, month) points (29 for February 2024, 28 for February
\* 2023); point d carries the total of the expenses of day d, or 0 when the
\* day has none; only days 1, 10, 20 and the last day carry a label.
C22_MonthChart ==
    /\ \A y \in ChartYears, m \in 1..12 : daysInMonth(y, m) = daysIn(y, m)
    /\ daysInMonth(2024, 2) = 29 /\ daysInMonth(2023, 2) = 28
    /\ [][/\ (/\ stats.pc = "GetTotals" /\ stats'.pc = "GetTotalForPeriod"
               /\ stats.viewMode # "year" /\ stats'.failed = stats.failed)
              => \A d \in 1..daysIn(stats.year, stats.month) :
                    LET rows == {e \in expenses :
                                    e.Date = time_Date(stats.year,
                                                       stats.month, d)}
                        read == {dt \in stats'.periodTotals : dt.Day = d}
                    IN  IF rows = {} THEN read = {}
                        ELSE read = {[Day |-> d, Total |-> SumAmounts(rows)]}
          /\ (Rendering /\ stats.viewMode # "year")
              => LET chart == resp'.model.ChartData
                     last == daysIn(stats.year, stats.month)
                 IN  /\ Len(chart) = last
                     /\ \A d \in 1..last :
                          /\ \/ [Day |-> d, Total |-> chart[d].Value]
                                    \in stats.periodTotals
                             \/ /\ chart[d].Value = 0
                                /\ \A dt \in stats.periodTotals : dt.Day # d
                          /\ chart[d].Label # "" <=> d \in {1, 10, 20, last}
                          /\ chart[d].Label # "" => chart[d].Label = Itoa(d)
         ]_vars

\* the chart of January 2024 with the expenses of the 10th
C22_Witness ==
    /\ Rendered
    /\ resp.model.ViewMode = "month"
    /\ Len(resp.model.ChartData) = 31
    /\ resp.model.ChartData[10] = [Label |-> "10", Value |-> 1500]
    /\ resp.model.ChartData[2] = [Label |-> "", Value |-> 0]

\* C23: in every view the category percentages sum to 100 when the period
\* total is positive and are all 0 when it is 0; each percentage is
\* categoryTotal / periodTotal * 100 for every period total that is not 0,
\* a negative one included.
C23_CategoryPercentages ==
    Rendered =>
        LET v == resp.model
        IN  /\ \A item \in v.Categories :
                  /\ item.Percentage.den # 0
                  /\ v.Total = 0 => item.Percentage.num = 0
                  /\ v.Total # 0 =>
                        item.Percentage.num * v.Total
                            = item.Total * 100 * item.Percentage.den
            /\ v.Total > 0 /\ SumTotals(v.Categories) = v.Total =>
                  /\ \A item \in v.Categories : item.Percentage.den = v.Total
                  /\ SumTotals({[Category |-> item.Category,
                                 Total |-> item.Percentage.num] :
                                    item \in v.Categories}) = 100 * v.Total

\* C24: a statistics request one of whose reads failed is answered with an
\* internal error, and no view is rendered for it.
C24_ReadFailureAborts ==
    resp.handler = "Statistics" /\ resp.failed # {} =>
        /\ resp.status = StatusInternalServerError
        /\ resp.view = ""
        /\ resp.model = ZeroViewModel

\* C30: a month view whose reads all succeeded is consistent: its Total is
\* the sum of its category totals and of its chart values, and the sum of
\* the amounts of its expense list.
C30_MonthViewConsistent ==
    Rendered /\ resp.model.ViewMode = "month" /\ resp.failed = {} =>
        /\ resp.model.Total = SumTotals(resp.model.Categories)
        /\ resp.model.Total = SumValues(resp.model.ChartData)
        /\ resp.model.Total = SumAmounts(resp.model.Expenses)


---------------------------------------------------------------------------
(* adduser *)

\* C25: adduser creates a user only when the username is not empty, the
\* password is not blank and no user has the username; a run with a valid
\* password for an existing username returns the 'already exists' error;
\* every run that returns an error leaves the users unchanged; usernames
\* stay unique.
C25_AdduserCreatesOnlyValid ==
    [][resp'.handler = "adduser" =>
        LET u == resp'.username
            exists == \E x \in users : x.Username = u
        IN  /\ users' # users =>
                  /\ u # <<>> /\ TrimSpace(resp'.password) # <<>> /\ ~exists
                  /\ resp'.error = ""
                  /\ \E x \in users' :
                        /\ users' = users \cup {x}
                        /\ x.Username = u
                        /\ CheckPassword(resp'.password, x.PasswordHash)
            /\ exists /\ TrimSpace(resp'.password) # <<>> =>
                  resp'.error = "user already exists"
            /\ resp'.error # "" => users' = users
            /\ resp'.error = "" => users' # users
            /\ \A x, y \in users' : x.Username = y.Username => x = y]_vars

\* a second run for a username is refused while both users are stored
C25_Witness ==
    /\ resp.handler = "adduser"
    /\ resp.error = "user already exists"
    /\ Cardinality(users) = 2


---------------------------------------------------------------------------
(* Concurrent requests, renewals and sweeps *)

\* C26: two RenewSession writes of the gate for one token are at least half
\* a session lifetime apart, also when requests carrying the token are
\* handled concurrently; in particular no write for a token follows another
\* write for it at the same instant.
C26_OneRenewalPerWindow ==
    [][\A r \in ReqIds :
          (/\ Left(r) /\ resp'.renewed = "ok"
           /\ RowsOf(req[r].cookie.value) # {})
          => ~(/\ resp.handler = "AuthMiddleware" /\ resp.renewed = "ok"
               /\ resp.cookie.value = req[r].cookie.value)]_vars

\* C27: whenever the gate reissues the session cookie after a RenewSession
\* call that returned success, a row of that token exists with the new
\* expires_at, whatever sweeps ran beside the request.
C27_ReissuedCookieHasRow ==
    [][\A r \in ReqIds :
          (Left(r) /\ resp'.renewed = "ok" /\ resp'.setCookie.set)
          => \E s \in sessions' :
                /\ s.token = resp'.setCookie.value
                /\ s.expires_at = req[r].newExpiresAt]_vars

\* C28: once a row has expires_at <= now, no later validation of its token
\* succeeds and no request carrying the token is admitted.
C28_ExpiryIsFinal ==
    [][\A tok \in Tokens :
          (\E s \in RowsOf(tok) : s.expires_at <= clock)
          => /\ \A s \in sessions' : s.token = tok => s.expires_at <= clock'
             /\ ~(resp'.served /\ resp'.cookie.value = tok)]_vars

\* the answer of the gate to a cookie whose token fails validation
Rejection(cookie) ==
    [NoResp EXCEPT !.handler = "AuthMiddleware", !.cookie = cookie,
                   !.queried = TRUE, !.status = StatusFound,
                   !.location = "/login",
                   !.setCookie = [set |-> TRUE, value |-> "", maxAge |-> -1]]

\* C29: a token that never had a row and a token whose row is expired are
\* not told apart: of two stores that differ only in the expired row (the
\* store before a sweep and the store after it), validation returns the
\* same failure for both, and the gate answers a token without an unexpired
\* row with a response that depends on the cookie alone (cookie cleared,
\* redirect to the login page) and changes nothing.
C29_ExpiredLikeAbsent ==
    [][/\ \A tok \in Tokens :
            (/\ \E s \in RowsOf(tok) : s.expires_at <= clock
             /\ \A s \in sessions' : s.token # tok
             /\ clock' = clock /\ users' = users)
            => /\ ValidateSessionWithInfo(tok, clock)
                    = (ValidateSessionWithInfo(tok, clock))'
               /\ ValidateSession(tok, clock) = (ValidateSession(tok, clock))'
               /\ ValidateSessionWithInfo(tok, clock).err
       /\ \A c \in RequestCookies :
            (/\ Answered /\ resp'.cookie = c /\ ~CookieMissing(c)
             /\ \A s \in RowsOf(c.value) : s.expires_at <= clock)
            => /\ resp' = Rejection(c)
               /\ sessions' = sessions /\ users' = users /\ req' = req
      ]_vars

\* the gate has turned away the token of an expired row exactly as it turns
\* away a token that never had a row
C29_Witness ==
    /\ resp = Rejection(Cookie("t1"))
    /\ \E s \in RowsOf("t1") : s.expires_at <= clock
    /\ RowsOf("t2") = {}

===========================================================================
